---- MODULE Spec2Model ----
(***************************************************************************)
(* vim-sort-folds: sort_folds() of python3/SortFolds/__init__.py and the   *)
(* VimFold adapter of python3/sort_folds/fold.py.                          *)
(*                                                                         *)
(* Line numbers of the host are 1-based (cursor, foldlevel(), motions);    *)
(* indices into vim.current.buffer and into the snapshot list are 0-based. *)
(* A TLA+ sequence is 1-based, so buffer index i is buffer[i + 1].         *)
(* A line's text is a natural number standing for the string's rank in     *)
(* Python's string order: two lines are equal iff their numbers are.       *)
(*                                                                         *)
(* The fold layouts are the flat ones: top-level folds that may touch each *)
(* other, with unfolded lines between them. Nested folds are not laid out. *)
(***************************************************************************)
EXTENDS Integers, Sequences, FiniteSets, TLC

MaxLen == 4
MaxText == 2
MaxKey == 3
MaxBuf == 3
MaxOps == 1

VARIABLES
    buffer,           \* vim.current.buffer, the live buffer
    top,              \* the host's fold layout: per line "o", "s" or "c"
    rangeStart,       \* vim.current.range.start
    rangeEnd,         \* vim.current.range.end
    cursor,           \* vim.current.window.cursor, its line number
    index_key,        \* the argument of sort_folds
    pc,               \* position in sort_folds
    initial_buf,      \* sort_folds: the snapshot list(vim.current.buffer)
    initial_cursor,   \* restore_cursor: the cursor saved on entry
    next_fold_start,  \* get_fold_ranges_in_current_range: loop variable
    initial_folds,    \* sort_folds: the Folds in located order
    sorted_folds,     \* sort_folds: the Folds in key order
    todo,             \* sort_folds: pairs of the reversed zip still to write
    zx,               \* number of 'normal! zx' commands issued
    zo,               \* number of 'normal! zo' commands issued
    vf,               \* a VimFold instance: [start |-> _start, stop |-> _stop]
    call,             \* the last VimFold call and what it returned or raised
    ops               \* number of VimFold calls made

vars == <<buffer, top, rangeStart, rangeEnd, cursor, index_key, pc,
          initial_buf, initial_cursor, next_fold_start, initial_folds,
          sorted_folds, todo, zx, zo, vf, call, ops>>

foldVars == <<vf, call, ops>>
sortVars == <<top, rangeStart, rangeEnd, cursor, index_key, pc,
              initial_buf, initial_cursor, next_fold_start, initial_folds,
              sorted_folds, todo, zx, zo>>

Min(a, b) == IF a < b THEN a ELSE b
Max(a, b) == IF a > b THEN a ELSE b

Text == 1..MaxText

(***************************************************************************)
(* The host: fold layout, foldlevel() and the fold motions.                *)
(* top[l] = "o": line l is in no fold; "s": l starts a top-level fold;     *)
(* "c": l continues the fold of line l - 1.                                *)
(***************************************************************************)
Layouts(n) ==
    {t \in [1..n -> {"o", "s", "c"}] :
        \A l \in 1..n : t[l] = "c" => (l > 1 /\ t[l - 1] # "o")}

InFold(l) == l \in DOMAIN top /\ top[l] # "o"

\* First line of the top-level fold holding line l.
FoldFirst(l) ==
    CHOOSE s \in 1..l :
        /\ top[s] = "s"
        /\ \A j \in (s + 1)..l : top[j] = "c"

\* Last line of the top-level fold holding line l.
FoldLast(l) ==
    CHOOSE e \in l..Len(top) :
        /\ \A j \in (l + 1)..e : top[j] = "c"
        /\ (e = Len(top) \/ top[e + 1] # "c")

fold_level(line_num) == IF InFold(line_num) THEN 1 ELSE 0

\* The line the cursor ends up in after 'normal! <motion>' from line c.
\* "[z" and "]z" move to the start and end of the open fold under the cursor
\* and fail (no move) when the cursor is already there or in no fold; "zj"
\* moves to the start of the next fold below and fails when there is none.
perform_motion(motion, c) ==
    CASE motion = "None" -> c
      [] motion = "[z" -> IF InFold(c) THEN FoldFirst(c) ELSE c
      [] motion = "]z" -> IF InFold(c) THEN FoldLast(c) ELSE c
      [] motion = "zj" ->
            LET below == {l \in DOMAIN top : l > c /\ top[l] = "s"}
            IN  IF below = {} THEN c
                ELSE CHOOSE l \in below : \A m \in below : l <= m

(***************************************************************************)
(* Python sequences: list slices and the buffer's slice assignment clip    *)
(* their bounds to the sequence.                                           *)
(***************************************************************************)
Slice(seq, lo, hi) == SubSeq(seq, Min(lo, Len(seq)) + 1, Min(hi, Len(seq)))

\* The same with hi taken as the last index replaced.
SliceAssignInclusive(seq, lo, hi, value) ==
    LET a == Min(lo, Len(seq))
        b == Max(a, Min(hi + 1, Len(seq)))
    IN  SubSeq(seq, 1, a) \o value \o SubSeq(seq, b + 1, Len(seq))

SliceAssign(seq, lo, hi, value) ==
    LET a == Min(lo, Len(seq))
        b == Max(a, Min(hi, Len(seq)))
    IN  SubSeq(seq, 1, a) \o value \o SubSeq(seq, b + 1, Len(seq))

(***************************************************************************)
(* class Fold                                                              *)
(***************************************************************************)
Fold(start_line_num, end_line_num) ==
    [start |-> start_line_num - 1, end |-> end_line_num - 1]

\* Fold.__getitem__ raises the buffer's IndexError, and only that.
FoldGetItemRaises(fold, i) == fold.start + i >= Len(buffer)

FoldGetItem(fold, i) == buffer[fold.start + i + 1]

(***************************************************************************)
(* sorted(initial_folds, key=operator.itemgetter(index_key)): a stable     *)
(* insertion sort (what list.sort does with fewer than 64 elements).       *)
(***************************************************************************)
RECURSIVE InsertByKey(_, _)
InsertByKey(done, fold) ==
    IF done = <<>> THEN <<fold>>
    ELSE IF FoldGetItem(done[Len(done)], index_key) <= FoldGetItem(fold, index_key)
         THEN Append(done, fold)
         ELSE Append(InsertByKey(SubSeq(done, 1, Len(done) - 1), fold),
                     done[Len(done)])

\* The same sort without stability: a fold goes before the folds of equal key.
RECURSIVE InsertBeforeEqual(_, _)
InsertBeforeEqual(done, fold) ==
    IF done = <<>> THEN <<fold>>
    ELSE IF FoldGetItem(done[Len(done)], index_key) < FoldGetItem(fold, index_key)
         THEN Append(done, fold)
         ELSE Append(InsertBeforeEqual(SubSeq(done, 1, Len(done) - 1), fold),
                     done[Len(done)])

RECURSIVE sorted_unstable(_)
sorted_unstable(folds) ==
    IF folds = <<>> THEN <<>>
    ELSE InsertBeforeEqual(sorted_unstable(SubSeq(folds, 1, Len(folds) - 1)),
                           folds[Len(folds)])

RECURSIVE sorted(_)
sorted(folds) ==
    IF folds = <<>> THEN <<>>
    ELSE InsertByKey(sorted(SubSeq(folds, 1, Len(folds) - 1)),
                     folds[Len(folds)])

(***************************************************************************)
(* move_to_first_fold_of_range, as the pair of what it returns and where   *)
(* it leaves the cursor. found = FALSE is the return value None.           *)
(***************************************************************************)
move_to_first_fold_of_range ==
    LET here == perform_motion("None", cursor)
        c1 == IF fold_level(here) = 0 THEN perform_motion("zj", cursor) ELSE cursor
        fold_start == c1
    IN  IF fold_level(fold_start) = 0
        THEN [found |-> FALSE, line |-> fold_start, cursor |-> c1, zo |-> 0]
        ELSE LET outer_fold_level == fold_level(perform_motion("[z", c1))
                 c2 == perform_motion(
                           IF fold_level(fold_start) = outer_fold_level
                           THEN "[z" ELSE "None", c1)
             IN  [found |-> rangeStart <= fold_start /\ fold_start < rangeEnd,
                  line |-> fold_start, cursor |-> c2, zo |-> 1]

(***************************************************************************)
(* sort_folds(index_key), one action per step of its control flow.         *)
(***************************************************************************)
NoCall == [op |-> "none"]

Init ==
    /\ buffer \in UNION {[1..n -> Text] : n \in 1..MaxLen}
    /\ top \in Layouts(Len(buffer))
    /\ rangeStart \in 0..(Len(buffer) - 1)
    /\ rangeEnd \in rangeStart..(Len(buffer) - 1)
    /\ cursor = rangeStart + 1
    /\ index_key \in 0..MaxKey
    /\ pc = "call"
    /\ initial_buf = <<>>
    /\ initial_cursor = cursor
    /\ next_fold_start = 0
    /\ initial_folds = <<>>
    /\ sorted_folds = <<>>
    /\ todo = 0
    /\ zx = 0
    /\ zo = 0
    /\ vf = [start |-> 0, stop |-> 0]
    /\ call = NoCall
    /\ ops = 0

\* Line 43, then the generator up to its loop: lines 59-62.
BeginLocate ==
    /\ pc = "call"
    /\ initial_buf' = buffer
    /\ initial_cursor' = cursor
    /\ LET first == move_to_first_fold_of_range
       IN  /\ zo' = zo + first.zo
           /\ IF first.found
              THEN /\ next_fold_start' = first.line
                   /\ cursor' = first.cursor
                   /\ pc' = "locate"
              ELSE /\ next_fold_start' = next_fold_start
                   /\ cursor' = cursor
                   /\ pc' = "sort"
    /\ UNCHANGED <<buffer, top, rangeStart, rangeEnd, index_key, initial_folds,
                   sorted_folds, todo, zx, foldVars>>

\* One iteration of the generator's loop, lines 63-72; sort_folds wraps the
\* yielded pair in a Fold (line 44).
YieldFold ==
    /\ pc = "locate"
    /\ next_fold_start < rangeEnd
    /\ zo' = zo + 1
    /\ LET fold_start == next_fold_start
           last == perform_motion("]z", cursor)
           fold_end == last + 1
           next == perform_motion("zj", last)
       IN  /\ initial_folds' = Append(initial_folds, Fold(fold_start, fold_end))
           /\ IF next = fold_start \/ fold_level(next) # fold_level(fold_start)
              THEN /\ cursor' = initial_cursor
                   /\ next_fold_start' = next
                   /\ pc' = "sort"
              ELSE /\ cursor' = next
                   /\ next_fold_start' = next
                   /\ pc' = "locate"
    /\ UNCHANGED <<buffer, top, rangeStart, rangeEnd, index_key, initial_buf,
                   initial_cursor, sorted_folds, todo, zx, foldVars>>

\* The loop condition of line 63 fails: the generator returns.
EndLocate ==
    /\ pc = "locate"
    /\ ~(next_fold_start < rangeEnd)
    /\ cursor' = initial_cursor
    /\ pc' = "sort"
    /\ UNCHANGED <<buffer, top, rangeStart, rangeEnd, index_key, initial_buf,
                   initial_cursor, next_fold_start, initial_folds, sorted_folds,
                   todo, zx, zo, foldVars>>

\* Line 45, every key read without an error.
SortFolds ==
    /\ pc = "sort"
    /\ \A i \in DOMAIN initial_folds : ~FoldGetItemRaises(initial_folds[i], index_key)
    /\ sorted_folds' = sorted(initial_folds)
    /\ todo' = Len(initial_folds)
    /\ pc' = "rewrite"
    /\ UNCHANGED <<buffer, top, rangeStart, rangeEnd, cursor, index_key,
                   initial_buf, initial_cursor, next_fold_start, initial_folds,
                   zx, zo, foldVars>>

\* Line 45, a key read raises IndexError: sort_folds is left by the exception.
SortRaises ==
    /\ pc = "sort"
    /\ \E i \in DOMAIN initial_folds : FoldGetItemRaises(initial_folds[i], index_key)
    /\ pc' = "error"
    /\ UNCHANGED <<buffer, top, rangeStart, rangeEnd, cursor, index_key,
                   initial_buf, initial_cursor, next_fold_start, initial_folds,
                   sorted_folds, todo, zx, zo, foldVars>>

\* Lines 47-48: the next pair of reversed(list(zip(initial_folds, sorted_folds))).
Rewrite ==
    /\ pc = "rewrite"
    /\ todo > 0
    /\ LET dst == initial_folds[todo]
           src == sorted_folds[todo]
       IN  buffer' = SliceAssign(buffer, dst.start, dst.end,
                                 Slice(initial_buf, src.start, src.end))
    /\ todo' = todo - 1
    /\ UNCHANGED <<top, rangeStart, rangeEnd, cursor, index_key, pc,
                   initial_buf, initial_cursor, next_fold_start, initial_folds,
                   sorted_folds, zx, zo, foldVars>>

\* No command issued.
issue_nothing(n) == n

\* Line 49: vim.command('normal! zx').
issue_zx(n) == n + 1

CloseFolds ==
    /\ pc = "rewrite"
    /\ todo = 0
    /\ zx' = issue_zx(zx)
    /\ pc' = "done"
    /\ UNCHANGED <<buffer, top, rangeStart, rangeEnd, cursor, index_key,
                   initial_buf, initial_cursor, next_fold_start, initial_folds,
                   sorted_folds, todo, zo, foldVars>>

Next ==
    \/ BeginLocate
    \/ YieldFold
    \/ EndLocate
    \/ SortFolds
    \/ SortRaises
    \/ Rewrite
    \/ CloseFolds

Spec == Init /\ [][Next]_vars

(***************************************************************************)
(* class VimFold (fold.py), with integer keys.                             *)
(***************************************************************************)
VimFold(start, stop) == [start |-> start - 1, stop |-> stop - 1]

\* VimFold.__len__
VimFoldLen(self) == self.stop - self.start

\* _clamp with a negative index counted from the end of the buffer.
ClampFromBuffer(self, index, strict) ==
    LET self_len == VimFoldLen(self)
    IN  IF strict /\ ~(-self_len <= index /\ index < self_len)
        THEN [raised |-> TRUE, index |-> 0]
        ELSE [raised |-> FALSE,
              index |-> self.start +
                  (IF index < 0 THEN Max(index + Len(buffer), 0)
                   ELSE Min(index, self_len))]

\* VimFold._clamp: raised = TRUE is the IndexError of strict mode.
Clamp(self, index, strict) ==
    LET self_len == VimFoldLen(self)
    IN  IF strict /\ ~(-self_len <= index /\ index < self_len)
        THEN [raised |-> TRUE, index |-> 0]
        ELSE [raised |-> FALSE,
              index |-> self.start +
                  (IF index < 0 THEN Max(index + self_len, 0)
                   ELSE Min(index, self_len))]

\* VimFold.__iter__: the lines it generates, or raised when the generator
\* reads past the end of the buffer.
VimFoldIter(self) ==
    IF self.stop > Len(buffer)
    THEN [raised |-> TRUE, items |-> <<>>]
    ELSE [raised |-> FALSE, items |-> SubSeq(buffer, self.start + 1, self.stop)]

\* list.insert(i, x) of the backing sequence, i >= 0.
ListInsert(seq, i, x) ==
    SubSeq(seq, 1, Min(i, Len(seq))) \o <<x>> \o SubSeq(seq, Min(i, Len(seq)) + 1, Len(seq))

\* del seq[i], 0 <= i < Len(seq). The host never leaves a buffer without
\* lines: deleting the only line leaves one empty line (text 0).
ListDelete(seq, i) ==
    IF Len(seq) = 1 THEN <<0>>
    ELSE SubSeq(seq, 1, i) \o SubSeq(seq, i + 2, Len(seq))

\* The integer keys tried on a fold: every key inside it and one past each end.
Indices == (0 - VimFoldLen(vf) - 1)..(VimFoldLen(vf) + 1)

InitFold ==
    /\ buffer \in UNION {[1..n -> Text] : n \in 1..MaxBuf}
    /\ \E start \in 1..(Len(buffer) + 1) :
         \E stop \in start..(Len(buffer) + 1) :
            vf = VimFold(start, stop)
    /\ call = NoCall
    /\ ops = 0
    /\ top = <<>>
    /\ rangeStart = 0
    /\ rangeEnd = 0
    /\ cursor = 1
    /\ index_key = 0
    /\ pc = "fold"
    /\ initial_buf = <<>>
    /\ initial_cursor = 1
    /\ next_fold_start = 0
    /\ initial_folds = <<>>
    /\ sorted_folds = <<>>
    /\ todo = 0
    /\ zx = 0
    /\ zo = 0

CallRecord(op, index, value, at, raised, ret) ==
    [op |-> op, index |-> index, value |-> value, at |-> at, raised |-> raised,
     ret |-> ret, before |-> buffer, len |-> VimFoldLen(vf)]

\* VimFold.insert(index, value)
Insert(index, value) ==
    /\ ops < MaxOps
    /\ LET at == Clamp(vf, index, FALSE).index
       IN  /\ buffer' = ListInsert(buffer, at, value)
           /\ call' = CallRecord("insert", index, value, at, FALSE, 0)
    /\ ops' = ops + 1
    /\ UNCHANGED <<vf, sortVars>>

\* VimFold.__getitem__(key), key an int
GetItem(key) ==
    /\ ops < MaxOps
    /\ LET c == Clamp(vf, key, TRUE)
           raised == c.raised \/ c.index >= Len(buffer)
       IN  call' = CallRecord("get", key, 0, c.index, raised,
                              IF raised THEN 0 ELSE buffer[c.index + 1])
    /\ ops' = ops + 1
    /\ UNCHANGED <<buffer, vf, sortVars>>

\* VimFold.__setitem__(key, value), key an int
SetItem(key, value) ==
    /\ ops < MaxOps
    /\ LET c == Clamp(vf, key, TRUE)
           raised == c.raised \/ c.index >= Len(buffer)
       IN  /\ call' = CallRecord("set", key, value, c.index, raised, 0)
           /\ buffer' = IF raised THEN buffer
                        ELSE [buffer EXCEPT ![c.index + 1] = value]
    /\ ops' = ops + 1
    /\ UNCHANGED <<vf, sortVars>>

\* VimFold.__delitem__(key), key an int
DelItem(key) ==
    /\ ops < MaxOps
    /\ LET c == Clamp(vf, key, TRUE)
           raised == c.raised \/ c.index >= Len(buffer)
       IN  /\ call' = CallRecord("del", key, 0, c.index, raised, 0)
           /\ buffer' = IF raised THEN buffer ELSE ListDelete(buffer, c.index)
    /\ ops' = ops + 1
    /\ UNCHANGED <<vf, sortVars>>

NextFold ==
    \/ \E index \in Indices, value \in Text : Insert(index, value)
    \/ \E key \in Indices : GetItem(key)
    \/ \E key \in Indices, value \in Text : SetItem(key, value)
    \/ \E key \in Indices : DelItem(key)

SpecFold == InitFold /\ [][NextFold]_vars

(***************************************************************************)
(* What the claims speak of.                                               *)
(***************************************************************************)
NumFolds == Len(initial_folds)

FoldLen(fold) == fold.end - fold.start

\* The original content of a located fold.
Content(fold) == SubSeq(initial_buf, fold.start + 1, fold.end)

\* The located ranges are non-empty, disjoint and in ascending order.
DisjointAscending ==
    /\ \A i \in 1..NumFolds : initial_folds[i].start < initial_folds[i].end
    /\ \A i \in 1..NumFolds : initial_folds[i].end <= Len(initial_buf)
    /\ \A i \in 1..NumFolds : \A j \in 1..NumFolds :
           i < j => initial_folds[i].end <= initial_folds[j].start

\* Every located fold has a line index_key.
KeyInEveryFold == \A i \in 1..NumFolds : index_key < FoldLen(initial_folds[i])

\* The key of the i-th located fold: the original text of its line index_key.
KeyOf(i) == initial_buf[initial_folds[i].start + index_key + 1]

\* Fold i comes before fold j in key order, ties in original order.
Precedes(i, j) == KeyOf(i) < KeyOf(j) \/ (KeyOf(i) = KeyOf(j) /\ i < j)

\* The located fold with the slot-th smallest key.
FoldOfSlot(slot) ==
    CHOOSE j \in 1..NumFolds :
        Cardinality({i \in 1..NumFolds : Precedes(i, j)}) = slot - 1

\* The buffer the claim describes, up to and including slot n.
RECURSIVE ExpectedUpTo(_)
ExpectedUpTo(n) ==
    IF n = 0 THEN <<>>
    ELSE ExpectedUpTo(n - 1)
         \o SubSeq(initial_buf,
                   (IF n = 1 THEN 0 ELSE initial_folds[n - 1].end) + 1,
                   initial_folds[n].start)
         \o Content(initial_folds[FoldOfSlot(n)])

Expected ==
    ExpectedUpTo(NumFolds)
    \o SubSeq(initial_buf,
              (IF NumFolds = 0 THEN 0 ELSE initial_folds[NumFolds].end) + 1,
              Len(initial_buf))

\* C1: after sort_folds(k) over disjoint located folds in ascending order that
\* all have a line k, the buffer is the text before the first fold, then for
\* each slot the whole original content of the fold with the slot-th smallest
\* key (ties in original order), with the text between and after the folds
\* kept in place.
C1_SortedIntoSlots ==
    (pc = "done" /\ DisjointAscending /\ KeyInEveryFold) => buffer = Expected

\* C1 witness: a completed sort of two folds of different lengths that moved.
C1_Witness ==
    /\ pc = "done"
    /\ DisjointAscending
    /\ KeyInEveryFold
    /\ NumFolds = 2
    /\ FoldLen(initial_folds[1]) # FoldLen(initial_folds[2])
    /\ sorted_folds # initial_folds
    /\ buffer # initial_buf

\* C2: a call with index_key at or past the line count of the shortest
\* located fold raises; it never gets as far as sorting and rewriting.
C2_KeyPastFoldRaises ==
    (pc \in {"rewrite", "done"} /\ NumFolds > 0) => KeyInEveryFold

\* No line of the selected range is in a fold.
RangeHoldsNoFold == \A l \in (rangeStart + 1)..(rangeEnd + 1) : ~InFold(l)

\* C3: a range that holds no fold makes the locator yield nothing; and when
\* the locator yields nothing, sort_folds raises no error, leaves the buffer
\* as it was and issues 'zx' exactly once, at its end.
C3_NoFoldsNoChange ==
    /\ (pc \in {"sort", "rewrite", "done", "error"} /\ RangeHoldsNoFold) =>
           NumFolds = 0
    /\ (pc \in {"sort", "rewrite", "done", "error"} /\ NumFolds = 0) =>
           /\ pc # "error"
           /\ buffer = initial_buf
           /\ zx = (IF pc = "done" THEN 1 ELSE 0)

\* C3 witness: a completed call whose range holds no folded line.
C3_Witness ==
    /\ pc = "done"
    /\ NumFolds = 0
    /\ zx = 1
    /\ RangeHoldsNoFold
    /\ \E l \in DOMAIN top : InFold(l)

Count(seq, text) == Cardinality({i \in DOMAIN seq : seq[i] = text})

\* The 0-based indices of the snapshot that lie in no located range.
OutsideAll ==
    {i \in 0..(Len(initial_buf) - 1) :
        \A f \in 1..NumFolds :
            ~(initial_folds[f].start <= i /\ i < initial_folds[f].end)}

RECURSIVE Restrict(_, _)
Restrict(seq, keep) ==
    IF seq = <<>> THEN <<>>
    ELSE Restrict(SubSeq(seq, 1, Len(seq) - 1), keep)
         \o (IF (Len(seq) - 1) \in keep THEN <<seq[Len(seq)]>> ELSE <<>>)

RECURSIVE IsSubsequence(_, _)
IsSubsequence(small, big) ==
    IF small = <<>> THEN TRUE
    ELSE IF big = <<>> THEN FALSE
    ELSE IF small[1] = big[1] THEN IsSubsequence(Tail(small), Tail(big))
    ELSE IsSubsequence(small, Tail(big))

\* C4: a completed sort_folds keeps the number of lines and the multiset of
\* lines of the buffer, and the lines outside every located range keep their
\* text and their order.
C4_FramePreserved ==
    pc = "done" =>
        /\ Len(buffer) = Len(initial_buf)
        /\ \A t \in Text : Count(buffer, t) = Count(initial_buf, t)
        /\ IsSubsequence(Restrict(initial_buf, OutsideAll), buffer)

\* The keys the sort reads are already in ascending order.
KeysAscending ==
    \A i \in 1..NumFolds : \A j \in 1..NumFolds :
        i < j => initial_buf[initial_folds[i].start + index_key + 1]
                 <= initial_buf[initial_folds[j].start + index_key + 1]

\* Where slot i begins in the rewritten buffer: the folds written before it
\* may differ in length from the folds they replaced.
RECURSIVE SlotStart(_)
SlotStart(i) ==
    IF i = 1 THEN initial_folds[1].start
    ELSE SlotStart(i - 1) + FoldLen(sorted_folds[i - 1])
         + (initial_folds[i].start - initial_folds[i - 1].end)

\* C5: sort_folds(k) over located folds that are already in key order leaves
\* the buffer identical; and the folds a sort_folds(k) has written are in key
\* order, slot by slot.
C5_Idempotent ==
    /\ (pc = "done" /\ KeysAscending) => buffer = initial_buf
    /\ (pc = "done" /\ DisjointAscending /\ KeyInEveryFold) =>
           \A i \in 1..NumFolds : \A j \in 1..NumFolds :
               i < j => buffer[SlotStart(i) + index_key + 1]
                        <= buffer[SlotStart(j) + index_key + 1]

\* C5 witness: a completed call over two folds of different content whose
\* keys were in order.
C5_Witness ==
    /\ pc = "done"
    /\ NumFolds >= 2
    /\ KeyInEveryFold
    /\ KeysAscending
    /\ Content(initial_folds[1]) # Content(initial_folds[2])

\* C8: every range the locator yields begins at the first line of a
\* top-level fold, and that line is in [range.start, range.end).
C8_RangesBeginAtFoldStart ==
    \A i \in 1..NumFolds :
        LET line == initial_folds[i].start + 1
        IN  /\ top[line] = "s"
            /\ rangeStart <= line
            /\ line < rangeEnd

\* C9: when a destination fold is about to be overwritten, every buffer line
\* before its end index still is the snapshot's.
C9_EarlierLinesUntouched ==
    (pc = "rewrite" /\ todo > 0) =>
        \A i \in 1..initial_folds[todo].end :
            i <= Len(buffer) /\ buffer[i] = initial_buf[i]

\* C10: the yielded ranges are non-empty, pairwise disjoint and strictly
\* increasing in start; nothing is yielded after the last fold.
C10_RangesDisjointIncreasing ==
    /\ \A i \in 1..NumFolds : initial_folds[i].start < initial_folds[i].end
    /\ \A i \in 1..NumFolds : \A j \in 1..NumFolds :
           i < j => /\ initial_folds[i].start < initial_folds[j].start
                    /\ initial_folds[i].end <= initial_folds[j].start

\* The fold of the last call lay within the buffer when the call was made.
FoldWasInBuffer == call.op # "none" /\ vf.stop <= Len(call.before)

\* The lines of the fold when the last call was made.
ItemsBefore == SubSeq(call.before, vf.start + 1, vf.stop)

\* C6: insert(0, x) makes x the line at the fold's first position and
\* insert(L, x) puts x right after the fold's last line; after either, the
\* same instance has length L + 1 and its iteration and indexing run over
\* the old lines with x among them.
C6_InsertExtendsFold ==
    (FoldWasInBuffer /\ call.op = "insert" /\ call.index \in {0, call.len}) =>
        /\ call.index = 0 => buffer[vf.start + 1] = call.value
        /\ call.index = call.len => buffer[vf.start + call.len + 1] = call.value
        /\ buffer = ListInsert(call.before, vf.start + call.index, call.value)
        /\ VimFoldLen(vf) = call.len + 1
        /\ ~VimFoldIter(vf).raised
        /\ VimFoldIter(vf).items = ListInsert(ItemsBefore, call.index, call.value)
        /\ ~Clamp(vf, call.len, TRUE).raised

\* The backing index the claim gives for key i of a fold of length L at s.
BackingIndex(i) == IF i >= 0 THEN vf.start + i ELSE vf.start + call.len + i

\* C7: on a fold over backing indices [s, s + L), get, set and delete with an
\* integer key i, -L <= i < L, act on backing line s + i (i >= 0) or
\* s + L + i (i < 0); any other integer key raises IndexError and the buffer
\* stays as it was.
C7_IntegerKeys ==
    (FoldWasInBuffer /\ call.op \in {"get", "set", "del"}) =>
        IF 0 - call.len <= call.index /\ call.index < call.len
        THEN /\ ~call.raised
             /\ call.at = BackingIndex(call.index)
             /\ call.op = "get" =>
                    /\ call.ret = call.before[BackingIndex(call.index) + 1]
                    /\ buffer = call.before
             /\ call.op = "set" =>
                    buffer = [call.before EXCEPT
                                 ![BackingIndex(call.index) + 1] = call.value]
             /\ call.op = "del" =>
                    buffer = ListDelete(call.before, BackingIndex(call.index))
        ELSE /\ call.raised
             /\ buffer = call.before

\* C7 witness: key -1 of a fold of two or more lines, not at the end of the
\* buffer, was set to another text.
C7_Witness ==
    /\ FoldWasInBuffer
    /\ call.op = "set"
    /\ call.index = 0 - 1
    /\ call.len >= 2
    /\ vf.stop < Len(call.before)
    /\ ~call.raised
    /\ buffer # call.before
    /\ buffer[vf.stop] = call.value

====
